---- MODULE Spec2Model ----
(***************************************************************************)
(* examples/notebooks/using-submodels.ipynb: a kernel session holding the  *)
(* names `model` and `simulation`, the model objects those names have been *)
(* bound to, and the calls the notebook makes on them.                     *)
(*                                                                         *)
(*   Spec          any session that makes the calls the notebook makes, in *)
(*                 any order and with any of a small set of arguments;     *)
(*   SpecNotebook  the notebook itself, statement by statement, in order.  *)
(***************************************************************************)
EXTENDS Naturals, Sequences, FiniteSets

VARIABLES
    models,      \* every model object created so far, in order of creation
    model,       \* the object the name `model` is bound to (0: unbound)
    simulation,  \* the object the name `simulation` is bound to, or NoSimulation
    err,         \* the exception the last call raised ("": none)
    pc,          \* the notebook statement to run next (0 in a free session)
    it,          \* entries the running for loop has already consumed
    out          \* what the cells have printed and displayed

vars == <<models, model, simulation, err, pc, it, out>>

\* ------------------------------------------------------------------ bounds

\* Model objects a free session creates.
MaxModels == 1

\* ------------------------------------------------------------- submodels

\* A submodel object: its class and the electrode it was constructed for.
Sub(cls, dom) == [cls |-> cls, dom |-> dom]

Entry(key, sub) == [name |-> key, submodel |-> sub]

\* The submodels SPM selects, as the notebook prints them.
SPMSubmodels ==
    << Entry("external circuit", Sub("external_circuit.CurrentControl", "")),
       Entry("porosity", Sub("porosity.Constant", "")),
       Entry("electrolyte tortuosity", Sub("tortuosity.Bruggeman", "Electrolyte")),
       Entry("electrode tortuosity", Sub("tortuosity.Bruggeman", "Electrode")),
       Entry("through-cell convection", Sub("convection.through_cell.NoConvection", "")),
       Entry("transverse convection", Sub("convection.transverse.NoConvection", "")),
       Entry("negative interface", Sub("interface.InverseButlerVolmer", "Negative")),
       Entry("positive interface", Sub("interface.InverseButlerVolmer", "Positive")),
       Entry("negative interface current", Sub("interface.CurrentForInverseButlerVolmer", "Negative")),
       Entry("positive interface current", Sub("interface.CurrentForInverseButlerVolmer", "Positive")),
       Entry("negative oxygen interface", Sub("interface.NoReaction", "Negative")),
       Entry("positive oxygen interface", Sub("interface.NoReaction", "Positive")),
       Entry("negative particle", Sub("particle.FickianSingleParticle", "Negative")),
       Entry("positive particle", Sub("particle.FickianSingleParticle", "Positive")),
       Entry("negative electrode", Sub("electrode.ohm.LeadingOrder", "Negative")),
       Entry("leading-order electrolyte conductivity", Sub("electrolyte_conductivity.LeadingOrder", "")),
       Entry("electrolyte diffusion", Sub("electrolyte_diffusion.ConstantConcentration", "")),
       Entry("positive electrode", Sub("electrode.ohm.LeadingOrder", "Positive")),
       Entry("thermal", Sub("thermal.isothermal.Isothermal", "")),
       Entry("current collector", Sub("current_collector.Uniform", "")),
       Entry("negative sei", Sub("sei.NoSEI", "Negative")),
       Entry("positive sei", Sub("sei.NoSEI", "Positive")) >>

\* The submodel the first notebook section swaps in.
UniformNegativeParticle == Sub("particle.PolynomialSingleParticle", "Negative")

Names(submodels) == { submodels[k].name : k \in 1..Len(submodels) }

NameList(submodels) == [k \in 1..Len(submodels) |-> submodels[k].name]

\* submodels[key], for a key the mapping holds.
Get(submodels, key) ==
    submodels[CHOOSE k \in 1..Len(submodels) : submodels[k].name = key].submodel

\* SetItem as "delete the key, then add it": the entry moves to the end.
SetItemMovesToEnd(submodels, key, sub) ==
    Append(SelectSeq(submodels, LAMBDA e : e.name # key), Entry(key, sub))

\* submodels[key] = sub, on a Python dict: an existing key keeps its place and
\* takes the new value, a new key goes to the end.
SetItem(submodels, key, sub) ==
    IF key \in Names(submodels)
    THEN [k \in 1..Len(submodels) |->
             IF submodels[k].name = key THEN Entry(key, sub) ELSE submodels[k]]
    ELSE Append(submodels, Entry(key, sub))

\* ----------------------------------------------------------- the library

\* The physics a submodel class describes.
Physics(cls) ==
    CASE cls = "external_circuit.CurrentControl" -> "external circuit"
      [] cls = "current_collector.Uniform" -> "current collector"
      [] cls = "thermal.isothermal.Isothermal" -> "thermal"
      [] cls = "porosity.Constant" -> "porosity"
      [] cls = "electrode.ohm.LeadingOrder" -> "electrode"
      [] cls = "particle.FickianSingleParticle" -> "particle"
      [] cls = "particle.PolynomialSingleParticle" -> "particle"
      [] cls = "interface.InverseButlerVolmer" -> "interface"
      [] cls = "interface.CurrentForInverseButlerVolmer" -> "interface current"
      [] cls = "sei.NoSEI" -> "sei"
      [] cls = "electrolyte_diffusion.ConstantConcentration" -> "electrolyte diffusion"
      [] cls = "electrolyte_conductivity.LeadingOrder" -> "electrolyte conductivity"
      [] cls = "tortuosity.Bruggeman" -> "tortuosity"
      [] cls = "convection.through_cell.NoConvection" -> "through-cell convection"
      [] cls = "convection.transverse.NoConvection" -> "transverse convection"
      [] cls = "interface.NoReaction" -> "oxygen interface"

\* What a submodel object provides to a model that holds it, under any key.
Provides(sub) == <<sub.dom, Physics(sub.cls)>>

\* What build_model needs some submodel of the mapping to provide.
Required ==
    { <<"", "external circuit">>, <<"", "current collector">>, <<"", "thermal">>,
      <<"", "porosity">>,
      <<"Negative", "electrode">>, <<"Positive", "electrode">>,
      <<"Negative", "particle">>, <<"Positive", "particle">>,
      <<"Negative", "interface">>, <<"Positive", "interface">>,
      <<"Negative", "interface current">>, <<"Positive", "interface current">>,
      <<"Negative", "sei">>, <<"Positive", "sei">>,
      <<"", "electrolyte diffusion">>, <<"", "electrolyte conductivity">> }

Missing(submodels) ==
    Required \ { Provides(submodels[k].submodel) : k \in 1..Len(submodels) }

Lower(dom) == IF dom = "Negative" THEN "negative" ELSE "positive"

\* RhsOf with the polynomial particle taken to have no differential equation.
RhsOfWithoutPolynomial(sub) ==
    CASE sub.cls = "external_circuit.CurrentControl" ->
            << [variable |-> <<"", "", "Discharge capacity [A.h]">>, domain |-> << >>] >>
      [] sub.cls = "particle.FickianSingleParticle" ->
            << [variable |-> <<"X-averaged", Lower(sub.dom), "particle concentration">>,
                domain |-> <<Lower(sub.dom), "particle">>] >>
      [] OTHER -> << >>

\* The keys one submodel adds to model.rhs, as the notebook displays them.
RhsOf(sub) ==
    CASE sub.cls = "external_circuit.CurrentControl" ->
            << [variable |-> <<"", "", "Discharge capacity [A.h]">>, domain |-> << >>] >>
      [] sub.cls = "particle.PolynomialSingleParticle" ->
            << [variable |-> <<"R-X-averaged", Lower(sub.dom), "particle concentration">>,
                domain |-> <<"current collector">>] >>
      [] sub.cls = "particle.FickianSingleParticle" ->
            << [variable |-> <<"X-averaged", Lower(sub.dom), "particle concentration">>,
                domain |-> <<Lower(sub.dom), "particle">>] >>
      [] OTHER -> << >>

\* rhs.update(eqs), on a Python dict keyed by variable.
RECURSIVE Update(_, _)
Update(rhs, eqs) ==
    IF eqs = << >> THEN rhs
    ELSE LET e == Head(eqs)
             at == { k \in 1..Len(rhs) : rhs[k].variable = e.variable }
         IN  Update(IF at = {} THEN Append(rhs, e)
                    ELSE [k \in 1..Len(rhs) |-> IF k \in at THEN e ELSE rhs[k]],
                    Tail(eqs))

\* The equations of the first n submodels of the mapping, in its order.
RECURSIVE Equations(_, _)
Equations(submodels, n) ==
    IF n = 0 THEN << >>
    ELSE Update(Equations(submodels, n - 1), RhsOf(submodels[n].submodel))

\* build_model without the check for what is missing.
build_model_unchecked(m) ==
    [obj |-> [m EXCEPT !.built = TRUE,
                       !.rhs = Equations(m.submodels, Len(m.submodels))],
     err |-> ""]

\* model.build_model(): the model as built and the exception raised.
build_model(m) ==
    IF Missing(m.submodels) # {}
    THEN [obj |-> m, err |-> "ModelError"]
    ELSE [obj |-> [m EXCEPT !.built = TRUE,
                            !.rhs = Equations(m.submodels, Len(m.submodels))],
          err |-> ""]

Unbuilt(kind, submodels) ==
    [kind |-> kind, submodels |-> submodels, built |-> FALSE, rhs |-> << >>]

\* pybamm.lithium_ion.SPM(build=...): collects the submodels, then builds.
SPM(build) ==
    IF build THEN build_model(Unbuilt("SPM", SPMSubmodels))
    ELSE [obj |-> Unbuilt("SPM", SPMSubmodels), err |-> ""]

\* BaseModel as a constructor that builds by default, as SPM does.
BaseModelBuilds == build_model(Unbuilt("BaseModel", << >>))

\* pybamm.lithium_ion.BaseModel(): selects no submodels and builds nothing.
BaseModel == [obj |-> Unbuilt("BaseModel", << >>), err |-> ""]

NoSimulation == [model |-> 0, solved |-> FALSE, plotted |-> FALSE]

\* ------------------------------------------------------------- the calls
\* What each call of the notebook does to the session, whoever makes it.

\* model = <constructor>(...): the name is bound unless the constructor raises.
Load(r) ==
    /\ IF r.err = ""
       THEN models' = Append(models, r.obj) /\ model' = Len(models) + 1
       ELSE UNCHANGED <<models, model>>
    /\ err' = r.err
    /\ UNCHANGED simulation

\* Assign on a mapping that the objects of one class share.
AssignToSharedMapping(key, sub) ==
    /\ IF model = 0
       THEN err' = "NameError" /\ UNCHANGED models
       ELSE /\ models' = [i \in 1..Len(models) |->
                   IF models[i].kind = models[model].kind
                   THEN [models[i] EXCEPT !.submodels = SetItem(@, key, sub)]
                   ELSE models[i]]
            /\ err' = ""
    /\ UNCHANGED <<model, simulation>>

\* Assign as a setter that sets up the equations of the mapping at once.
AssignSetsEquations(key, sub) ==
    /\ IF model = 0
       THEN err' = "NameError" /\ UNCHANGED models
       ELSE /\ models' = [models EXCEPT
                   ![model].submodels = SetItem(@, key, sub),
                   ![model].rhs = Equations(SetItem(models[model].submodels, key, sub),
                                            Len(SetItem(models[model].submodels, key, sub)))]
            /\ err' = ""
    /\ UNCHANGED <<model, simulation>>

\* model.submodels[key] = sub
Assign(key, sub) ==
    /\ IF model = 0
       THEN err' = "NameError" /\ UNCHANGED models
       ELSE /\ models' = [models EXCEPT ![model].submodels = SetItem(@, key, sub)]
            /\ err' = ""
    /\ UNCHANGED <<model, simulation>>

\* model.build_model()
Build ==
    /\ IF model = 0
       THEN err' = "NameError" /\ UNCHANGED models
       ELSE LET r == build_model(models[model])
            IN  models' = [models EXCEPT ![model] = r.obj] /\ err' = r.err
    /\ UNCHANGED <<model, simulation>>

\* simulation = pybamm.Simulation(model): the simulation refers to the object.
Simulate ==
    /\ IF model = 0
       THEN err' = "NameError" /\ UNCHANGED simulation
       ELSE /\ simulation' = [model |-> model, solved |-> FALSE, plotted |-> FALSE]
            /\ err' = ""
    /\ UNCHANGED <<models, model>>

\* Solve without the check for an empty model.
SolveUnchecked ==
    /\ IF simulation = NoSimulation
       THEN err' = "NameError" /\ UNCHANGED simulation
       ELSE simulation' = [simulation EXCEPT !.solved = TRUE] /\ err' = ""
    /\ UNCHANGED <<models, model>>

\* simulation.solve([0, 3600]): a model with no equations cannot be used.
Solve ==
    /\ IF simulation = NoSimulation
       THEN err' = "NameError" /\ UNCHANGED simulation
       ELSE IF models[simulation.model].rhs = << >>
       THEN err' = "ModelError" /\ UNCHANGED simulation
       ELSE simulation' = [simulation EXCEPT !.solved = TRUE] /\ err' = ""
    /\ UNCHANGED <<models, model>>

\* simulation.plot(): there is a solution to plot only after solve.
Plot ==
    /\ IF simulation = NoSimulation
       THEN err' = "NameError" /\ UNCHANGED simulation
       ELSE IF ~simulation.solved
       THEN err' = "ValueError" /\ UNCHANGED simulation
       ELSE simulation' = [simulation EXCEPT !.plotted = TRUE] /\ err' = ""
    /\ UNCHANGED <<models, model>>

\* ---------------------------------------------------------- a free session

\* The keys and the submodels a free session assigns.
SessionKeys == {"negative particle", "positive particle"}

SessionSubs ==
    { Sub("particle.FickianSingleParticle", "Negative"),
      Sub("particle.PolynomialSingleParticle", "Negative"),
      Sub("particle.PolynomialSingleParticle", "Positive") }

Init ==
    /\ models = << >>
    /\ model = 0
    /\ simulation = NoSimulation
    /\ err = ""
    /\ pc = 0
    /\ it = 0
    /\ out = << >>

SessionLoadSPM ==
    /\ Len(models) < MaxModels
    /\ \E build \in BOOLEAN : Load(SPM(build))
    /\ UNCHANGED <<pc, it, out>>

SessionLoadBaseModel ==
    /\ Len(models) < MaxModels
    /\ Load(BaseModel)
    /\ UNCHANGED <<pc, it, out>>

SessionAssign ==
    /\ \E key \in SessionKeys, sub \in SessionSubs : Assign(key, sub)
    /\ UNCHANGED <<pc, it, out>>

\* A session builds a model it has not built yet.
SessionBuild ==
    /\ model # 0 => ~models[model].built
    /\ Build
    /\ UNCHANGED <<pc, it, out>>

SessionSimulate == Simulate /\ UNCHANGED <<pc, it, out>>

SessionSolve == Solve /\ UNCHANGED <<pc, it, out>>

SessionPlot == Plot /\ UNCHANGED <<pc, it, out>>

Next ==
    \/ SessionLoadSPM
    \/ SessionLoadBaseModel
    \/ SessionAssign
    \/ SessionBuild
    \/ SessionSimulate
    \/ SessionSolve
    \/ SessionPlot

Spec == Init /\ [][Next]_vars

\* ------------------------------------------------------------ the notebook

St(op) == [op |-> op, kind |-> "", build |-> FALSE, key |-> "", sub |-> Sub("", "")]

LoadSt(kind, build) == [St("load") EXCEPT !.kind = kind, !.build = build]

SetSt(key, sub) == [St("set") EXCEPT !.key = key, !.sub = sub]

\* %pip install pybamm -q; import pybamm
CellImport == << St("pip"), St("import") >>

\* model = pybamm.lithium_ion.SPM()
CellLoadSPM == << LoadSt("SPM", TRUE) >>

\* for name, submodel in model.submodels.items(): print(name, submodel)
CellPrintSubmodels == << St("for"), St("print") >>

\* The cell with the keyword forgotten.
CellLoadSPMAgain == << LoadSt("SPM", TRUE) >>

\* model = pybamm.lithium_ion.SPM(build=False)
CellLoadUnbuiltSPM == << LoadSt("SPM", FALSE) >>

\* model.submodels["negative particle"] = PolynomialSingleParticle(...)
CellSwap == << SetSt("negative particle", UniformNegativeParticle) >>

\* model.rhs
CellRhs == << St("rhs") >>

\* The build cell left out.
CellBuildOmitted == << >>

\* model.build_model()
CellBuild == << St("build") >>

\* The cell with plot written before solve.
CellSimulationPlotFirst == << St("simulate"), St("plot"), St("solve") >>

\* simulation = pybamm.Simulation(model); simulation.solve(...); simulation.plot()
CellSimulation == << St("simulate"), St("solve"), St("plot") >>

\* model = pybamm.lithium_ion.BaseModel()
CellLoadBaseModel == << LoadSt("BaseModel", FALSE) >>

\* The assignments with the positive particle's a copy of the negative's.
CellsCustomCopied ==
    << SetSt("external circuit", Sub("external_circuit.CurrentControl", "")),
       SetSt("current collector", Sub("current_collector.Uniform", "")),
       SetSt("thermal", Sub("thermal.isothermal.Isothermal", "")),
       SetSt("porosity", Sub("porosity.Constant", "")),
       SetSt("negative electrode", Sub("electrode.ohm.LeadingOrder", "Negative")),
       SetSt("positive electrode", Sub("electrode.ohm.LeadingOrder", "Positive")),
       SetSt("negative particle", Sub("particle.PolynomialSingleParticle", "Negative")),
       SetSt("positive particle", Sub("particle.PolynomialSingleParticle", "Negative")),
       SetSt("negative interface", Sub("interface.InverseButlerVolmer", "Negative")),
       SetSt("positive interface", Sub("interface.InverseButlerVolmer", "Positive")),
       SetSt("negative interface current", Sub("interface.CurrentForInverseButlerVolmer", "Negative")),
       SetSt("positive interface current", Sub("interface.CurrentForInverseButlerVolmer", "Positive")),
       SetSt("negative sei", Sub("sei.NoSEI", "Negative")),
       SetSt("positive sei", Sub("sei.NoSEI", "Positive")),
       SetSt("electrolyte diffusion", Sub("electrolyte_diffusion.ConstantConcentration", "")),
       SetSt("electrolyte conductivity", Sub("electrolyte_conductivity.LeadingOrder", "")) >>

\* The sixteen assignments that assemble the custom model.
CellsCustom ==
    << SetSt("external circuit", Sub("external_circuit.CurrentControl", "")),
       SetSt("current collector", Sub("current_collector.Uniform", "")),
       SetSt("thermal", Sub("thermal.isothermal.Isothermal", "")),
       SetSt("porosity", Sub("porosity.Constant", "")),
       SetSt("negative electrode", Sub("electrode.ohm.LeadingOrder", "Negative")),
       SetSt("positive electrode", Sub("electrode.ohm.LeadingOrder", "Positive")),
       SetSt("negative particle", Sub("particle.PolynomialSingleParticle", "Negative")),
       SetSt("positive particle", Sub("particle.PolynomialSingleParticle", "Positive")),
       SetSt("negative interface", Sub("interface.InverseButlerVolmer", "Negative")),
       SetSt("positive interface", Sub("interface.InverseButlerVolmer", "Positive")),
       SetSt("negative interface current", Sub("interface.CurrentForInverseButlerVolmer", "Negative")),
       SetSt("positive interface current", Sub("interface.CurrentForInverseButlerVolmer", "Positive")),
       SetSt("negative sei", Sub("sei.NoSEI", "Negative")),
       SetSt("positive sei", Sub("sei.NoSEI", "Positive")),
       SetSt("electrolyte diffusion", Sub("electrolyte_diffusion.ConstantConcentration", "")),
       SetSt("electrolyte conductivity", Sub("electrolyte_conductivity.LeadingOrder", "")) >>

\* The program with the swap made after the build instead of before it.
ProgramSwapAfterBuild ==
    CellImport \o CellLoadSPM \o CellPrintSubmodels
      \o CellLoadUnbuiltSPM \o CellPrintSubmodels
      \o CellRhs \o CellBuild \o CellSwap \o CellRhs \o CellSimulation
      \o CellLoadBaseModel \o CellsCustom \o CellBuild \o CellSimulation

\* The program with the first build cell run a second time.
ProgramRebuilds ==
    CellImport \o CellLoadSPM \o CellPrintSubmodels
      \o CellLoadUnbuiltSPM \o CellSwap \o CellPrintSubmodels
      \o CellRhs \o CellBuild \o CellBuild \o CellRhs \o CellSimulation
      \o CellLoadBaseModel \o CellsCustom \o CellBuild \o CellSimulation

\* The code cells in the order of the file, statement by statement.
Program ==
    CellImport \o CellLoadSPM \o CellPrintSubmodels
      \o CellLoadUnbuiltSPM \o CellSwap \o CellPrintSubmodels
      \o CellRhs \o CellBuild \o CellRhs \o CellSimulation
      \o CellLoadBaseModel \o CellsCustom \o CellBuild \o CellSimulation

Stmt == Program[pc]

\* The run is at a statement of this kind, and no cell has raised.
At(op) == err = "" /\ pc \in 1..Len(Program) /\ Program[pc].op = op

\* An exception ends the run at the statement that raised it.
Advance == pc' = IF err' = "" THEN pc + 1 ELSE pc

Printed(key, sub) == [kind |-> "print", name |-> key, value |-> sub.cls]

Displayed(rhs) == [kind |-> "rhs", name |-> "", value |-> rhs]

InitNotebook ==
    /\ models = << >>
    /\ model = 0
    /\ simulation = NoSimulation
    /\ err = ""
    /\ pc = 1
    /\ it = 0
    /\ out = << >>

NbPip ==
    /\ At("pip")
    /\ out' = Append(out, [kind |-> "note", name |-> "", value |-> "restart the kernel"])
    /\ pc' = pc + 1
    /\ UNCHANGED <<models, model, simulation, err, it>>

NbImport ==
    /\ At("import")
    /\ pc' = pc + 1
    /\ UNCHANGED <<models, model, simulation, err, it, out>>

NbLoad ==
    /\ At("load")
    /\ Load(IF Stmt.kind = "SPM" THEN SPM(Stmt.build) ELSE BaseModel)
    /\ Advance
    /\ UNCHANGED <<it, out>>

\* The loop header: bind the next entry and run the body, or leave the loop.
NbFor ==
    /\ At("for")
    /\ IF it < Len(models[model].submodels)
       THEN it' = it + 1 /\ pc' = pc + 1
       ELSE it' = 0 /\ pc' = pc + 2
    /\ UNCHANGED <<models, model, simulation, err, out>>

\* The loop body: print(name, submodel), then back to the header.
NbPrint ==
    /\ At("print")
    /\ LET e == models[model].submodels[it]
       IN  out' = Append(out, Printed(e.name, e.submodel))
    /\ pc' = pc - 1
    /\ UNCHANGED <<models, model, simulation, err, it>>

NbAssign ==
    /\ At("set")
    /\ Assign(Stmt.key, Stmt.sub)
    /\ Advance
    /\ UNCHANGED <<it, out>>

\* A cell whose last expression is model.rhs displays it.
NbRhs ==
    /\ At("rhs")
    /\ out' = Append(out, Displayed(models[model].rhs))
    /\ pc' = pc + 1
    /\ UNCHANGED <<models, model, simulation, err, it>>

NbBuild == At("build") /\ Build /\ Advance /\ UNCHANGED <<it, out>>

NbSimulate == At("simulate") /\ Simulate /\ Advance /\ UNCHANGED <<it, out>>

NbSolve == At("solve") /\ Solve /\ Advance /\ UNCHANGED <<it, out>>

NbPlot == At("plot") /\ Plot /\ Advance /\ UNCHANGED <<it, out>>

NextNotebook ==
    \/ NbPip
    \/ NbImport
    \/ NbLoad
    \/ NbFor
    \/ NbPrint
    \/ NbAssign
    \/ NbRhs
    \/ NbBuild
    \/ NbSimulate
    \/ NbSolve
    \/ NbPlot

SpecNotebook == InitNotebook /\ [][NextNotebook]_vars

\* The notebook run to the end: whoever runs the cells in order runs the next
\* statement as long as there is one and no cell has raised.
FairNotebook == SpecNotebook /\ WF_vars(NextNotebook)

\* ---------------------------------------------------------------- claims

Objects == 1..Len(models)

\* C1: a model object that has not been built has an empty model.rhs, whatever
\* has been assigned to its submodels since it was constructed.
C1_RhsEmptyBeforeBuild ==
    \A i \in Objects : ~models[i].built => models[i].rhs = << >>

\* An SPM loaded with build=False, its negative particle swapped, not yet built.
C1_Witness ==
    \E i \in Objects :
        /\ models[i].kind = "SPM"
        /\ ~models[i].built
        /\ Get(models[i].submodels, "negative particle") = UniformNegativeParticle
        /\ models[i].rhs = << >>

\* C2: build_model on an unbuilt model whose submodels lack something required
\* raises and leaves the model unbuilt, with no equations.
C2_BuildRaisesWhenMissing ==
    [][ (SessionBuild /\ model # 0 /\ Missing(models[model].submodels) # {})
          => (err' = "ModelError" /\ ~models'[model].built /\ models'[model].rhs = << >>)
      ]_vars

\* build_model has just raised on a model that lacks a required submodel.
C2_Witness ==
    /\ err = "ModelError"
    /\ simulation = NoSimulation
    /\ model # 0
    /\ Missing(models[model].submodels) # {}
    /\ ~models[model].built

\* C3: solving a simulation of a model that has not been built raises, and the
\* simulation is not solved.
C3_SolveRaisesOnUnbuilt ==
    [][ (Solve /\ simulation # NoSimulation /\ ~models[simulation.model].built)
          => (err' = "ModelError" /\ ~simulation'.solved)
      ]_vars

\* solve has just raised on a model that holds every required submodel and
\* was never built.
C3_Witness ==
    /\ err = "ModelError"
    /\ simulation # NoSimulation
    /\ simulation.model = model
    /\ ~models[model].built
    /\ Missing(models[model].submodels) = {}
    /\ ~simulation.solved

\* The first place of a statement in the program.
PcOf(st) ==
    CHOOSE p \in 1..Len(Program) :
        Program[p] = st /\ \A q \in 1..(p - 1) : Program[q] # st

\* C4: SPM() gives a built model; SPM(build=False) gives a model with the same
\* submodel names, in the same order, that is unbuilt until build_model is
\* called on it.
C4_BuildByDefault ==
    /\ Len(models) >= 1 => models[1].kind = "SPM" /\ models[1].built
    /\ Len(models) >= 2 =>
          /\ models[2].kind = "SPM"
          /\ NameList(models[2].submodels) = NameList(models[1].submodels)
          /\ (pc <= PcOf(St("build")) => ~models[2].built)

\* Both have been loaded and the second is still unbuilt.
C4_Witness ==
    /\ Len(models) = 2
    /\ models[1].built
    /\ ~models[2].built
    /\ pc = PcOf(St("build"))

\* C5: assigning to a name an unbuilt model already holds replaces that entry
\* only: the names and their order, every other entry, the unbuilt state and the
\* empty rhs are as before.
C5_AssignReplacesOneEntry ==
    [][ \A key \in SessionKeys, sub \in SessionSubs :
          (/\ Assign(key, sub)
           /\ model # 0
           /\ ~models[model].built
           /\ key \in Names(models[model].submodels))
          => LET old == models[model].submodels
                 new == models'[model].submodels
             IN  /\ NameList(new) = NameList(old)
                 /\ \A k \in 1..Len(old) :
                        new[k].submodel = IF old[k].name = key THEN sub
                                          ELSE old[k].submodel
                 /\ ~models'[model].built
                 /\ models'[model].rhs = << >>
                 /\ \A i \in Objects : i # model => models'[i] = models[i]
      ]_vars

\* The swap of the notebook has just been made on an unbuilt SPM.
C5_Witness ==
    /\ model # 0
    /\ err = ""
    /\ models[model].kind = "SPM"
    /\ ~models[model].built
    /\ Get(models[model].submodels, "negative particle") = UniformNegativeParticle
    /\ Get(models[model].submodels, "positive particle")
         = Sub("particle.FickianSingleParticle", "Positive")

HasConcentration(rhs, electrode) ==
    \E k \in 1..Len(rhs) :
        /\ rhs[k].variable[2] = electrode
        /\ rhs[k].variable[3] = "particle concentration"

\* C6: a built model has a non-empty model.rhs, and a built SPM has in it an
\* entry for the concentration in the negative particle and one for the
\* concentration in the positive particle.
C6_RhsPopulatedByBuild ==
    \A i \in Objects :
        models[i].built =>
            /\ models[i].rhs # << >>
            /\ models[i].kind = "SPM" =>
                  /\ HasConcentration(models[i].rhs, "negative")
                  /\ HasConcentration(models[i].rhs, "positive")

\* An SPM built after its negative particle was swapped.
C6_Witness ==
    \E i \in Objects :
        /\ models[i].kind = "SPM"
        /\ models[i].built
        /\ \E k \in 1..Len(models[i].rhs) :
              models[i].rhs[k].variable
                 = <<"R-X-averaged", "negative", "particle concentration">>

\* C7: in the notebook, Simulation is constructed from a built model, solve is
\* called on a simulation whose model is built, and plot on a solved one.
C7_BuiltBeforeSimulated ==
    /\ At("simulate") => model # 0 /\ models[model].built
    /\ At("solve") => simulation # NoSimulation /\ models[simulation.model].built
    /\ At("plot") => simulation.solved
    /\ simulation.solved => models[simulation.model].built
    /\ simulation.plotted => simulation.solved

\* The custom model's simulation has been solved and plotted.
C7_Witness ==
    /\ simulation.model = 3
    /\ simulation.solved
    /\ simulation.plotted
    /\ pc = Len(Program) + 1

\* C8: BaseModel() binds `model` to a new object with no submodels, unbuilt
\* and with no equations, and raises nothing.
C8_BaseModelSelectsNothing ==
    [][ SessionLoadBaseModel =>
          /\ err' = ""
          /\ Len(models') = Len(models) + 1
          /\ model' = Len(models')
          /\ models'[model'].submodels = << >>
          /\ ~models'[model'].built
          /\ models'[model'].rhs = << >>
      ]_vars

\* A base model, just constructed.
C8_Witness ==
    /\ model # 0
    /\ models[model].kind = "BaseModel"
    /\ models[model].submodels = << >>
    /\ err = ""

\* The names the custom model is assembled from.
CustomNames ==
    { "external circuit", "current collector", "thermal", "porosity",
      "negative electrode", "positive electrode",
      "negative particle", "positive particle",
      "negative interface", "positive interface",
      "negative interface current", "positive interface current",
      "negative sei", "positive sei",
      "electrolyte diffusion", "electrolyte conductivity" }

\* The assignments of the custom section made before the run reached p.
CustomDone(p) ==
    LET n == p - PcOf(LoadSt("BaseModel", FALSE)) - 1
    IN  IF n < Len(CellsCustom) THEN n ELSE Len(CellsCustom)

\* C9: in the custom section every assignment adds its own entry at the end of
\* the mapping and leaves the earlier ones as they were; when the sixteen names
\* are set nothing required is missing, and the build that follows succeeds.
C9_CustomModelBuilds ==
    Len(models) = 3 =>
        LET m == models[3]
            n == CustomDone(pc)
        IN  /\ m.submodels =
                  [k \in 1..n |-> Entry(CellsCustom[k].key, CellsCustom[k].sub)]
            /\ n = Len(CellsCustom) =>
                  /\ Names(m.submodels) = CustomNames
                  /\ Missing(m.submodels) = {}
            /\ (pc > PcOf(LoadSt("BaseModel", FALSE)) + Len(CellsCustom) + 1) =>
                  m.built /\ m.rhs # << >>
            /\ err = ""

\* The custom model, assembled and built.
C9_Witness ==
    /\ Len(models) = 3
    /\ models[3].kind = "BaseModel"
    /\ Len(models[3].submodels) = 16
    /\ models[3].built

\* C10: the SPM built after the swap has the equations of the submodels it held
\* when it was built: the discharge capacity, the averaged concentration of the
\* negative particle on the current collector, and the concentration of the
\* positive particle on the particle domain; that is what the cell displays.
C10_EquationsOfSwappedModel ==
    LET expected ==
          << [variable |-> <<"", "", "Discharge capacity [A.h]">>, domain |-> << >>],
             [variable |-> <<"R-X-averaged", "negative", "particle concentration">>,
              domain |-> <<"current collector">>],
             [variable |-> <<"X-averaged", "positive", "particle concentration">>,
              domain |-> <<"positive", "particle">>] >>
    IN  /\ (Len(models) >= 2 /\ models[2].built) => models[2].rhs = expected
        /\ \A k \in 1..Len(out) :
              out[k].kind = "rhs" => out[k].value \in {<< >>, expected}
        /\ pc > PcOf(St("build")) => Len(models) >= 2 /\ models[2].built

\* The cell after the build has displayed the three equations.
C10_Witness ==
    \E k \in 1..Len(out) :
        /\ out[k].kind = "rhs"
        /\ Len(out[k].value) = 3
        /\ models[2].rhs = out[k].value

\* The run has passed the last statement with both models built and the last
\* simulation solved and plotted.
Finished ==
    /\ pc = Len(Program) + 1
    /\ Len(models) = 3
    /\ models[2].built
    /\ models[3].built
    /\ simulation.model = 3
    /\ simulation.solved
    /\ simulation.plotted

\* C11: run in order, the notebook raises nowhere and reaches its end, with
\* both models built and the simulations solved and plotted.
C11_RunsToTheEnd == [](err = "") /\ <>[]Finished

\* The run has ended, every cell run and none raised.
C11_Witness == err = "" /\ Finished /\ Len(out) > 0

\* C12: in the notebook every assignment to a model's submodels is made while
\* that model is unbuilt, build_model is called only on an unbuilt model, and a
\* built model object is never changed again.
C12_AssignBeforeBuildOnce ==
    [][ /\ (NbAssign /\ model # 0) => ~models[model].built
        /\ (NbBuild /\ model # 0) => ~models[model].built
        /\ \A i \in Objects : models[i].built => models'[i] = models[i]
      ]_vars

\* All three objects at the end: the first as SPM() made it, the second built
\* after its swap, the third built after its sixteen assignments.
C12_Witness ==
    /\ Len(models) = 3
    /\ models[1] = SPM(TRUE).obj
    /\ models[2].built
    /\ Get(models[2].submodels, "negative particle") = UniformNegativeParticle
    /\ models[3].built
    /\ Len(models[3].submodels) = Len(CellsCustom)

\* The load statements the run has completed before it reached p.
Loaded(p) == { q \in 1..(p - 1) : Program[q].op = "load" }

\* C13: every load statement of the notebook makes an object of its own and
\* binds `model` to it; the swap on the second object leaves the first as
\* SPM() made it; the third starts with no submodels and no equations, and what
\* is assigned to it leaves the second as it was.
C13_InstancesShareNothing ==
    /\ Len(models) = Cardinality(Loaded(pc))
    /\ model = Len(models)
    /\ Len(models) >= 1 => models[1] = SPM(TRUE).obj
    /\ Len(models) >= 2 =>
          /\ pc = PcOf(LoadSt("SPM", FALSE)) + 1 => models[2] = SPM(FALSE).obj
          /\ \A k \in 1..Len(SPMSubmodels) :
                SPMSubmodels[k].name # "negative particle"
                   => models[2].submodels[k] = SPMSubmodels[k]
    /\ Len(models) = 3 =>
          /\ pc = PcOf(LoadSt("BaseModel", FALSE)) + 1 =>
                /\ models[3].submodels = << >>
                /\ models[3].rhs = << >>
                /\ ~models[3].built
          /\ models[2].submodels
                = SetItem(SPMSubmodels, "negative particle", UniformNegativeParticle)
          /\ models[2].rhs = Equations(models[2].submodels, Len(models[2].submodels))

\* The third object holds submodels of its own while the first still has the
\* particle model SPM selects and the second the one swapped in.
C13_Witness ==
    /\ Len(models) = 3
    /\ "negative particle" \in Names(models[3].submodels)
    /\ Get(models[1].submodels, "negative particle")
          = Sub("particle.FickianSingleParticle", "Negative")
    /\ Get(models[2].submodels, "negative particle") = UniformNegativeParticle

====
